---- MODULE Spec2Model ----
(***************************************************************************)
(* The three provisioning scripts of the repository:                       *)
(*   execution/setup_docker_environment.py  (environment provisioner)      *)
(*   execution/setup_laravel_backend.py     (backend provisioner)          *)
(*   execution/setup_nextjs_frontend.py     (frontend provisioner)         *)
(* One process is one run of one script.  The file system persists from    *)
(* one run to the next.  Texts are TLA+ strings; Len, SubSeq and \o act    *)
(* on their characters.  The glyphs the scripts print in front of their    *)
(* messages are left out of the modelled messages.                         *)
(***************************************************************************)
EXTENDS Integers, Sequences, FiniteSets, TLC

VARIABLES
    prog,       \* the script this process runs: "env", "backend" or "frontend"
    args,       \* the parsed command-line arguments, given to the constructor
    pc,         \* the method the run is about to call
    fs,         \* the files on disk: path -> content
    dirs,       \* the directories the scripts and their commands create
    steps,      \* this run: the pipeline steps called, in order, with their result
    cmds,       \* this run: the external commands invoked, in order, with their result
    stdout,     \* this run: the messages printed
    runResult,  \* this run: what run() returned ("none" until it returns)
    exitCode,   \* this run: the process exit code (-1 while it runs)
    runs        \* the number of runs started so far

vars == <<prog, args, pc, fs, dirs, steps, cmds, stdout, runResult, exitCode, runs>>

---------------------------------------------------------------------------
(* Bounds of the model *)

\* the number of runs of the script in one behaviour
MaxRuns == 2

---------------------------------------------------------------------------
(* Text: the string operations of Python the scripts use *)

MinOf(S) == CHOOSE i \in S : \A j \in S : i <= j

\* the 1-based index of the first occurrence of sub in s, 0 when there is none
\* (str.find + 1)
FirstMatch(s, sub) ==
    LET n == Len(sub)
        at == {i \in 1..(Len(s) - n + 1) : SubSeq(s, i, i + n - 1) = sub}
    IN  IF at = {} THEN 0 ELSE MinOf(at)

\* `sub in s`
Contains(s, sub) == FirstMatch(s, sub) # 0

\* s with new after each of its characters
RECURSIVE AfterEach(_, _)
AfterEach(s, new) ==
    IF Len(s) = 0 THEN ""
    ELSE IF Len(s) = 1 THEN s \o new
    ELSE LET h == Len(s) \div 2
         IN  AfterEach(SubSeq(s, 1, h), new) \o AfterEach(SubSeq(s, h + 1, Len(s)), new)

\* s.replace(old, new) for a nonempty old: the occurrences of old, found from
\* the left and not overlapping, each replaced by new
RECURSIVE ReplaceNonEmpty(_, _, _)
ReplaceNonEmpty(s, old, new) ==
    LET i == FirstMatch(s, old)
    IN  IF i = 0 THEN s
        ELSE SubSeq(s, 1, i - 1) \o new
                \o ReplaceNonEmpty(SubSeq(s, i + Len(old), Len(s)), old, new)

\* s.replace(old, new): an empty old matches before every character and at the end
Replace(s, old, new) ==
    IF old = "" THEN new \o AfterEach(s, new)
    ELSE ReplaceNonEmpty(s, old, new)

---------------------------------------------------------------------------
(* The file templates *)

\* execution/setup_docker_environment.py:32-141  DockerEnvironmentSetup.create_docker_compose: docker_compose_content
DockerComposeContent(project_name, mysql_password, mysql_database) ==
    "version: '3.8'\n"
 \o "\n"
 \o "services:\n"
 \o "  # MySQL Database\n"
 \o "  mysql:\n"
 \o "    image: mysql:8.0\n"
 \o "    platform: linux/amd64\n"
 \o "    container_name: " \o project_name \o "_mysql\n"
 \o "    ports:\n"
 \o "      - \"3307:3306\"\n"
 \o "    environment:\n"
 \o "      MYSQL_ROOT_PASSWORD: " \o mysql_password \o "\n"
 \o "      MYSQL_DATABASE: " \o mysql_database \o "\n"
 \o "    volumes:\n"
 \o "      - mysql_data:/var/lib/mysql\n"
 \o "    networks:\n"
 \o "      - cms_network\n"
 \o "    healthcheck:\n"
 \o "      test: [\"CMD\", \"mysqladmin\", \"ping\", \"-h\", \"localhost\", \"-u\", \"root\", \"-p" \o mysql_password \o "\"]\n"
 \o "      interval: 10s\n"
 \o "      timeout: 5s\n"
 \o "      retries: 5\n"
 \o "    restart: unless-stopped\n"
 \o "\n"
 \o "  # Redis Cache\n"
 \o "  redis:\n"
 \o "    image: redis:7-alpine\n"
 \o "    platform: linux/amd64\n"
 \o "    container_name: " \o project_name \o "_redis\n"
 \o "    ports:\n"
 \o "      - \"6379:6379\"\n"
 \o "    volumes:\n"
 \o "      - redis_data:/data\n"
 \o "    networks:\n"
 \o "      - cms_network\n"
 \o "    healthcheck:\n"
 \o "      test: [\"CMD\", \"redis-cli\", \"ping\"]\n"
 \o "      interval: 10s\n"
 \o "      timeout: 5s\n"
 \o "      retries: 5\n"
 \o "    restart: unless-stopped\n"
 \o "\n"
 \o "  # Laravel Backend\n"
 \o "  laravel:\n"
 \o "    build:\n"
 \o "      context: ./backend\n"
 \o "      dockerfile: Dockerfile\n"
 \o "    container_name: " \o project_name \o "_laravel\n"
 \o "    # ports:\n"
 \o "    #   - \"8000:80\"  <-- Removed to enforce access via Next.js proxy\n"
 \o "    volumes:\n"
 \o "      - ./backend:/var/www/html\n"
 \o "      - storage_data:/var/www/html/storage\n"
 \o "    environment:\n"
 \o "      - APP_ENV=local\n"
 \o "      - APP_DEBUG=true\n"
 \o "    networks:\n"
 \o "      - cms_network\n"
 \o "    depends_on:\n"
 \o "      mysql:\n"
 \o "        condition: service_healthy\n"
 \o "      redis:\n"
 \o "        condition: service_healthy\n"
 \o "    restart: unless-stopped\n"
 \o "\n"
 \o "  # Next.js Frontend\n"
 \o "  nextjs:\n"
 \o "    build:\n"
 \o "      context: ./frontend\n"
 \o "      dockerfile: Dockerfile\n"
 \o "    container_name: " \o project_name \o "_nextjs\n"
 \o "    ports:\n"
 \o "      - \"3000:3000\"\n"
 \o "    volumes:\n"
 \o "      - ./frontend:/app\n"
 \o "      - /app/node_modules\n"
 \o "      - /app/.next\n"
 \o "    environment:\n"
 \o "      - NODE_ENV=development\n"
 \o "      - NEXT_PUBLIC_API_URL=http://localhost:8000/api/v1\n"
 \o "    networks:\n"
 \o "      - cms_network\n"
 \o "    depends_on:\n"
 \o "      - laravel\n"
 \o "    restart: unless-stopped\n"
 \o "\n"
 \o "  # Mailhog (Email Testing)\n"
 \o "  mailhog:\n"
 \o "    image: mailhog/mailhog:latest\n"
 \o "    platform: linux/amd64\n"
 \o "    container_name: " \o project_name \o "_mailhog\n"
 \o "    ports:\n"
 \o "      - \"1025:1025\"  # SMTP\n"
 \o "      - \"8025:8025\"  # Web UI\n"
 \o "    networks:\n"
 \o "      - cms_network\n"
 \o "    restart: unless-stopped\n"
 \o "\n"
 \o "networks:\n"
 \o "  cms_network:\n"
 \o "    driver: bridge\n"
 \o "\n"
 \o "volumes:\n"
 \o "  mysql_data:\n"
 \o "    driver: local\n"
 \o "  redis_data:\n"
 \o "    driver: local\n"
 \o "  storage_data:\n"
 \o "    driver: local\n"

\* execution/setup_docker_environment.py:155-217  DockerEnvironmentSetup.create_backend_dockerfile: dockerfile_content
BackendDockerfileContent ==
    "FROM php:8.2-fpm-alpine\n"
 \o "\n"
 \o "# Install system dependencies\n"
 \o "RUN apk add --no-cache     git     curl     libpng-dev     libzip-dev     zip     unzip     nginx     supervisor     icu-dev\n"
 \o "\n"
 \o "# Install PHP extensions\n"
 \o "RUN docker-php-ext-install pdo pdo_mysql zip gd exif intl\n"
 \o "\n"
 \o "# Install Redis extension\n"
 \o "RUN apk add --no-cache $PHPIZE_DEPS     && pecl install redis     && docker-php-ext-enable redis\n"
 \o "\n"
 \o "# Install Composer\n"
 \o "COPY --from=composer:latest /usr/bin/composer /usr/bin/composer\n"
 \o "\n"
 \o "# Set working directory\n"
 \o "WORKDIR /var/www/html\n"
 \o "\n"
 \o "# Copy application files\n"
 \o "COPY . .\n"
 \o "\n"
 \o "# Set permissions\n"
 \o "RUN mkdir -p /var/www/html/storage/framework/views \\\n"
 \o "    /var/www/html/storage/framework/cache \\\n"
 \o "    /var/www/html/storage/framework/sessions \\\n"
 \o "    /var/www/html/storage/logs \\\n"
 \o "    /var/www/html/bootstrap/cache\n"
 \o "RUN chown -R www-data:www-data /var/www/html/storage /var/www/html/bootstrap/cache\n"
 \o "\n"
 \o "# Install dependencies (if composer.json exists)\n"
 \o "RUN if [ -f composer.json ]; then composer install --no-interaction --optimize-autoloader --no-dev; fi\n"
 \o "\n"
 \o "# Copy nginx configuration\n"
 \o "COPY docker/nginx.conf /etc/nginx/nginx.conf\n"
 \o "\n"
 \o "# Copy supervisor configuration\n"
 \o "RUN echo \"[supervisord]\" > /etc/supervisord.conf &&     echo \"nodaemon=true\" >> /etc/supervisord.conf &&     echo \"\" >> /etc/supervisord.conf &&     echo \"[program:php-fpm]\" >> /etc/supervisord.conf &&     echo \"command=php-fpm\" >> /etc/supervisord.conf &&     echo \"autostart=true\" >> /etc/supervisord.conf &&     echo \"autorestart=true\" >> /etc/supervisord.conf &&     echo \"\" >> /etc/supervisord.conf &&     echo \"[program:nginx]\" >> /etc/supervisord.conf &&     echo \"command=nginx -g 'daemon off;'\" >> /etc/supervisord.conf &&     echo \"autostart=true\" >> /etc/supervisord.conf &&     echo \"autorestart=true\" >> /etc/supervisord.conf\n"
 \o "\n"
 \o "EXPOSE 80\n"
 \o "\n"
 \o "CMD [\"/usr/bin/supervisord\", \"-c\", \"/etc/supervisord.conf\"]\n"

\* execution/setup_docker_environment.py:234-281  DockerEnvironmentSetup.create_nginx_config: nginx_config
NginxConfigContent ==
    "user www-data;\n"
 \o "worker_processes auto;\n"
 \o "error_log /var/log/nginx/error.log;\n"
 \o "pid /run/nginx.pid;\n"
 \o "\n"
 \o "events {\n"
 \o "    worker_connections 1024;\n"
 \o "}\n"
 \o "\n"
 \o "http {\n"
 \o "    include /etc/nginx/mime.types;\n"
 \o "    default_type application/octet-stream;\n"
 \o "\n"
 \o "    log_format main '$remote_addr - $remote_user [$time_local] \"$request\" '\n"
 \o "                    '$status $body_bytes_sent \"$http_referer\" '\n"
 \o "                    '\"$http_user_agent\" \"$http_x_forwarded_for\"';\n"
 \o "\n"
 \o "    access_log /var/log/nginx/access.log main;\n"
 \o "\n"
 \o "    sendfile on;\n"
 \o "    tcp_nopush on;\n"
 \o "    keepalive_timeout 65;\n"
 \o "    gzip on;\n"
 \o "\n"
 \o "    server {\n"
 \o "        listen 80;\n"
 \o "        server_name localhost;\n"
 \o "        root /var/www/html/public;\n"
 \o "\n"
 \o "        index index.php index.html;\n"
 \o "\n"
 \o "        location / {\n"
 \o "            try_files $uri $uri/ /index.php?$query_string;\n"
 \o "        }\n"
 \o "\n"
 \o "        location ~ \\.php$ {\n"
 \o "            fastcgi_pass 127.0.0.1:9000;\n"
 \o "            fastcgi_index index.php;\n"
 \o "            fastcgi_param SCRIPT_FILENAME $document_root$fastcgi_script_name;\n"
 \o "            include fastcgi_params;\n"
 \o "        }\n"
 \o "\n"
 \o "        location ~ /\\.ht {\n"
 \o "            deny all;\n"
 \o "        }\n"
 \o "    }\n"
 \o "}\n"

\* execution/setup_docker_environment.py:298-315  DockerEnvironmentSetup.create_frontend_dockerfile: dockerfile_content
FrontendDockerfileContent ==
    "FROM node:20-alpine\n"
 \o "\n"
 \o "WORKDIR /app\n"
 \o "\n"
 \o "# Copy package files\n"
 \o "COPY package*.json ./\n"
 \o "\n"
 \o "# Install dependencies\n"
 \o "RUN if [ -f package.json ]; then npm install; fi\n"
 \o "\n"
 \o "# Copy application files\n"
 \o "COPY . .\n"
 \o "\n"
 \o "EXPOSE 3000\n"
 \o "\n"
 \o "# Development mode with hot reload\n"
 \o "CMD sh -c \"if [ -f package.json ]; then npm run dev; else echo 'No package.json found. Waiting for setup...' && tail -f /dev/null; fi\"\n"

\* execution/setup_docker_environment.py:335-370  DockerEnvironmentSetup.create_env_files: backend_env
BackendEnv(app_key, mysql_database, mysql_password) ==
    "APP_NAME=\"CMS System\"\n"
 \o "APP_ENV=local\n"
 \o "APP_KEY=" \o app_key \o "\n"
 \o "APP_DEBUG=true\n"
 \o "APP_URL=http://localhost:8000\n"
 \o "\n"
 \o "LOG_CHANNEL=stack\n"
 \o "LOG_LEVEL=debug\n"
 \o "\n"
 \o "DB_CONNECTION=mysql\n"
 \o "DB_HOST=mysql\n"
 \o "DB_PORT=3306\n"
 \o "DB_DATABASE=" \o mysql_database \o "\n"
 \o "DB_USERNAME=root\n"
 \o "DB_PASSWORD=" \o mysql_password \o "\n"
 \o "\n"
 \o "BROADCAST_DRIVER=log\n"
 \o "CACHE_DRIVER=redis\n"
 \o "FILESYSTEM_DISK=local\n"
 \o "QUEUE_CONNECTION=sync\n"
 \o "SESSION_DRIVER=file\n"
 \o "SESSION_LIFETIME=120\n"
 \o "\n"
 \o "REDIS_HOST=redis\n"
 \o "REDIS_PASSWORD=null\n"
 \o "REDIS_PORT=6379\n"
 \o "\n"
 \o "MAIL_MAILER=smtp\n"
 \o "MAIL_HOST=mailhog\n"
 \o "MAIL_PORT=1025\n"
 \o "MAIL_USERNAME=null\n"
 \o "MAIL_PASSWORD=null\n"
 \o "MAIL_ENCRYPTION=null\n"
 \o "MAIL_FROM_ADDRESS=\"hello@example.com\"\n"
 \o "MAIL_FROM_NAME=\"${APP_NAME}\"\n"

\* execution/setup_docker_environment.py:373-375  DockerEnvironmentSetup.create_env_files: frontend_env
FrontendEnv ==
    "NEXT_PUBLIC_API_URL=http://localhost:8000/api/v1\n"
 \o "NEXT_PUBLIC_SITE_URL=http://localhost:3000\n"

\* execution/setup_docker_environment.py:410-419  DockerEnvironmentSetup.create_dockerignore: backend_ignore
BackendIgnore ==
    "node_modules\n"
 \o "vendor\n"
 \o ".env\n"
 \o ".git\n"
 \o ".gitignore\n"
 \o "storage/logs/*\n"
 \o "storage/framework/cache/*\n"
 \o "storage/framework/sessions/*\n"
 \o "storage/framework/views/*\n"

\* execution/setup_docker_environment.py:421-426  DockerEnvironmentSetup.create_dockerignore: frontend_ignore
FrontendIgnore ==
    "node_modules\n"
 \o ".next\n"
 \o ".git\n"
 \o ".gitignore\n"
 \o ".env*.local\n"

\* execution/setup_nextjs_frontend.py:154-176  NextJsFrontendSetup.create_api_client: content
\* (the two backquotes of the template literal on line 170 are written ' here:
\* the tools do not read a backquote inside a string)
ApiClientContent ==
    "import axios from 'axios'\n"
 \o "\n"
 \o "const api = axios.create({\n"
 \o "  baseURL: process.env.NEXT_PUBLIC_API_URL || 'http://localhost:8000/api/v1',\n"
 \o "  headers: {\n"
 \o "    'Content-Type': 'application/json',\n"
 \o "  },\n"
 \o "})\n"
 \o "\n"
 \o "// Product API\n"
 \o "export const productApi = {\n"
 \o "  getAll: async (params?: { category_id?: number; search?: string }) => {\n"
 \o "    const { data } = await api.get('/shop/products', { params })\n"
 \o "    return data\n"
 \o "  },\n"
 \o "  getBySlug: async (slug: string) => {\n"
 \o "    const { data } = await api.get('/shop/products/${slug}')\n"
 \o "    return data\n"
 \o "  },\n"
 \o "}\n"
 \o "\n"
 \o "export default api\n"

---------------------------------------------------------------------------
(* Command lines and initial states *)

Progs == {"env", "backend", "frontend"}

\* the defaults of the three argument parsers
DefaultArgs ==
    [project_name |-> "cms-system", mysql_password |-> "secret",
     mysql_database |-> "cms_db", admin_panel |-> "filament", theme_style |-> "modern"]

\* values given on the command line
ProjectNames == {"cms-system", "a\nb"}
Passwords == {"secret", "", "root", "null"}
DatabaseNames == {"cms_db", "d\ne"}
AdminPanels == {"filament", "nova"}

\* the constructors: the fields each setup object keeps of its arguments; the
\* fields of the other scripts stay at their defaults and are not read
DockerEnvironmentSetup(project_name, mysql_password, mysql_database) ==
    [DefaultArgs EXCEPT !.project_name = project_name, !.mysql_password = mysql_password,
                        !.mysql_database = mysql_database]

LaravelBackendSetup(admin_panel) == [DefaultArgs EXCEPT !.admin_panel = admin_panel]

NextJsFrontendSetup(theme_style) == [DefaultArgs EXCEPT !.theme_style = theme_style]

\* main: the setup object each script builds from its command line
ArgCases(p) ==
    IF p = "env"
    THEN {DockerEnvironmentSetup(n, w, d) :
            n \in ProjectNames, w \in Passwords, d \in DatabaseNames}
    ELSE IF p = "backend"
    THEN {LaravelBackendSetup(a) : a \in AdminPanels}
    ELSE {NextJsFrontendSetup("modern")}

\* values secrets.token_bytes(32) can lead generate_app_key to
AppKeys ==
    {"base64:" \o "q0J8mX2vT7yR4nZ1cK9bW5hL3sD6fG8pA0eU2iO4tY8=",
     "base64:" \o "Zm9vYmFyYmF6cXV4MTIzNDU2Nzg5MGFiY2RlZmdoaWo="}

\* the marker file of `backend/composer.json` resp. `frontend/package.json`
Marker(p) == IF p = "backend" THEN "backend/composer.json" ELSE "frontend/package.json"
TempApp(p) == IF p = "backend" THEN "backend/temp_app" ELSE "frontend/temp_app"

\* what the project generators put in the marker file (not read by the scripts)
MarkerContent(p) == IF p = "backend" THEN "{\"name\": \"laravel/laravel\"}\n"
                    ELSE "{\"name\": \"temp_app\"}\n"

EmptyFs == [p \in {} |-> ""]

\* the first method each script's run calls
EntryPoint(p) ==
    IF p = "env" THEN "create_docker_compose"
    ELSE IF p = "backend" THEN "check_laravel_installed"
    ELSE "check_nextjs_installed"

---------------------------------------------------------------------------
(* Writing files *)

\* a file of a step: its path, the content the step writes, and the messages
\* the step prints once the file is written
File(path, content, printed) == [path |-> path, content |-> content, printed |-> printed]

\* what is left of a file whose write raised: nothing was written, or a part was
Truncated(content, left) ==
    IF left = "empty" THEN "" ELSE SubSeq(content, 1, Len(content) \div 2)

\* the ways a step's writes can go: all Len(files) written, or n of them written
\* and the next one raising: before the file is opened (the file is untouched,
\* a mkdir before it counts as this), or after it is opened and truncated
WriteOutcomes(files) ==
    {[n |-> Len(files), left |-> "full"]}
        \cup {[n |-> k, left |-> l] : k \in 0..(Len(files) - 1),
                                      l \in {"untouched", "empty", "part"}}

\* a step that takes its first file for all of them
FirstWritten(files, o) == o.n >= 1

\* the step reaches its `return True`: no write raised
AllWritten(files, o) == o.n = Len(files)

\* the messages printed by the time the first n files are written
RECURSIVE PrintedBy(_, _)
PrintedBy(files, n) ==
    IF n = 0 THEN <<>> ELSE PrintedBy(files, n - 1) \o files[n].printed

\* the files on disk after `with open(path, "w") as f: f.write(content)` for the
\* files in order, stopped by the first exception
WriteFiles(files, o) ==
    LET done == {files[i].path : i \in 1..o.n}
        cut  == IF o.n < Len(files) /\ o.left # "untouched" THEN {files[o.n + 1].path} ELSE {}
    IN  [p \in DOMAIN fs \cup done \cup cut |->
            IF p \in done THEN files[CHOOSE i \in 1..o.n : files[i].path = p].content
            ELSE IF p \in cut THEN Truncated(files[o.n + 1].content, o.left)
            ELSE fs[p]]

---------------------------------------------------------------------------
(* The environment provisioner: execution/setup_docker_environment.py *)

\* generate_app_key
generate_app_key == AppKeys

\* the steps of run, in order
EnvSteps ==
    << [label |-> "Creating docker-compose.yml", func |-> "create_docker_compose"],
       [label |-> "Creating backend Dockerfile", func |-> "create_backend_dockerfile"],
       [label |-> "Creating nginx config", func |-> "create_nginx_config"],
       [label |-> "Creating frontend Dockerfile", func |-> "create_frontend_dockerfile"],
       [label |-> "Creating environment files", func |-> "create_env_files"],
       [label |-> "Creating .dockerignore files", func |-> "create_dockerignore"],
       [label |-> "Starting containers", func |-> "start_containers"],
       [label |-> "Verifying setup", func |-> "verify_setup"] >>

StepIndex(func) == CHOOSE i \in 1..Len(EnvSteps) : EnvSteps[i].func = func

\* a loop that goes on to the next step whatever the step returned
StepFailedIgnored(ok) == FALSE

\* `if not step_func():`
StepFailed(ok) == ~ok

\* the failure report of run
FailureReport(label) == "Setup failed at: " \o label

\* the body of run's loop for the step at pc, which returned ok after printing
\* `printed`; run returns False at the first failure and True after the last step
EnvLoop(ok, printed) ==
    LET i == StepIndex(pc)
    IN  /\ steps' = Append(steps, [label |-> EnvSteps[i].label, ok |-> ok])
        /\ IF StepFailed(ok)
           THEN /\ stdout' = stdout \o printed \o <<FailureReport(EnvSteps[i].label)>>
                /\ runResult' = "False"
                /\ pc' = "main_exit"
           ELSE /\ stdout' = stdout \o printed
                /\ IF i = Len(EnvSteps)
                   THEN runResult' = "True" /\ pc' = "main_exit"
                   ELSE runResult' = runResult /\ pc' = EnvSteps[i + 1].func

\* a step that writes `files` and returns True, or prints `failed` and returns
\* False when a write raises
WriteStep(files, failed) ==
    \E o \in WriteOutcomes(files) :
        /\ fs' = WriteFiles(files, o)
        /\ EnvLoop(AllWritten(files, o),
                   PrintedBy(files, o.n) \o (IF AllWritten(files, o) THEN <<>> ELSE <<failed>>))

\* a template filled with the database name where the password belongs, and
\* the password where the database name belongs
docker_compose_swapped(self) ==
    DockerComposeContent(self.project_name, self.mysql_database, self.mysql_password)

\* the f-string of create_docker_compose, filled from the fields of self
docker_compose_content(self) ==
    DockerComposeContent(self.project_name, self.mysql_password, self.mysql_database)

create_docker_compose ==
    /\ prog = "env" /\ pc = "create_docker_compose"
    /\ WriteStep(<<File("docker-compose.yml", docker_compose_content(args),
                        <<"Created docker-compose.yml">>)>>,
                 "Failed to create docker-compose.yml")
    /\ UNCHANGED <<prog, args, dirs, cmds, exitCode, runs>>

create_backend_dockerfile ==
    /\ prog = "env" /\ pc = "create_backend_dockerfile"
    /\ WriteStep(<<File("backend/Dockerfile", BackendDockerfileContent,
                        <<"Created backend/Dockerfile">>)>>,
                 "Failed to create backend Dockerfile")
    /\ dirs' = (IF "backend/Dockerfile" \in DOMAIN fs' THEN dirs \cup {"backend"} ELSE dirs)
    /\ UNCHANGED <<prog, args, cmds, exitCode, runs>>

create_nginx_config ==
    /\ prog = "env" /\ pc = "create_nginx_config"
    /\ WriteStep(<<File("backend/docker/nginx.conf", NginxConfigContent,
                        <<"Created backend/docker/nginx.conf">>)>>,
                 "Failed to create nginx config")
    /\ dirs' = (IF "backend/docker/nginx.conf" \in DOMAIN fs'
                THEN dirs \cup {"backend", "backend/docker"} ELSE dirs)
    /\ UNCHANGED <<prog, args, cmds, exitCode, runs>>

create_frontend_dockerfile ==
    /\ prog = "env" /\ pc = "create_frontend_dockerfile"
    /\ WriteStep(<<File("frontend/Dockerfile", FrontendDockerfileContent,
                        <<"Created frontend/Dockerfile">>)>>,
                 "Failed to create frontend Dockerfile")
    /\ dirs' = (IF "frontend/Dockerfile" \in DOMAIN fs' THEN dirs \cup {"frontend"} ELSE dirs)
    /\ UNCHANGED <<prog, args, cmds, exitCode, runs>>

\* the placeholder of the .env.example files
PasswordPlaceholder == "your_password_here"

\* the text written to backend/.env.example
BackendEnvExample(backend_env, mysql_password) ==
    Replace(backend_env, mysql_password, PasswordPlaceholder)

create_env_files ==
    /\ prog = "env" /\ pc = "create_env_files"
    /\ \E app_key \in generate_app_key :
         LET backend_env == BackendEnv(app_key, args.mysql_database, args.mysql_password)
         IN  WriteStep(<<File("backend/.env", backend_env, <<"Created backend/.env">>),
                         File("frontend/.env.local", FrontendEnv,
                              <<"Created frontend/.env.local">>),
                         File("backend/.env.example",
                              BackendEnvExample(backend_env, args.mysql_password), <<>>),
                         File("frontend/.env.example", FrontendEnv, <<>>)>>,
                       "Failed to create .env files")
    /\ UNCHANGED <<prog, args, dirs, cmds, exitCode, runs>>

create_dockerignore ==
    /\ prog = "env" /\ pc = "create_dockerignore"
    /\ WriteStep(<<File("backend/.dockerignore", BackendIgnore, <<>>),
                   File("frontend/.dockerignore", FrontendIgnore,
                        <<"Created .dockerignore files">>)>>,
                 "Failed to create .dockerignore files")
    /\ UNCHANGED <<prog, args, dirs, cmds, exitCode, runs>>

\* the services of the manifest, in its order
Services == <<"mysql", "redis", "laravel", "nextjs", "mailhog">>

\* a status listing of `docker compose ps`: a header, and a line for each
\* service with its container name and its status
RECURSIVE PsLines(_, _, _)
PsLines(project_name, up, n) ==
    IF n = 0 THEN "NAME   STATUS\n"
    ELSE PsLines(project_name, up, n - 1)
            \o project_name \o "_" \o Services[n] \o "   "
            \o (IF Services[n] \in up THEN "Up 5 seconds" ELSE "Exited (1) 5 seconds ago")
            \o "\n"

\* the listings the status command can print: any set of the services is up
PsOutputs(project_name) ==
    {PsLines(project_name, up, Len(Services)) : up \in SUBSET {Services[i] : i \in 1..Len(Services)}}

\* a subprocess of the environment provisioner, as logged
Command(argv, ok) == [cmd |-> argv, ok |-> ok]

start_containers ==
    /\ prog = "env" /\ pc = "start_containers"
    /\ \/ \E ok \in BOOLEAN :      \* the process ran and returned 0 or not
            /\ cmds' = Append(cmds, Command("docker compose up -d", ok))
            /\ EnvLoop(ok, <<"Starting Docker containers...",
                             IF ok THEN "Containers started successfully"
                                   ELSE "Failed to start containers">>)
       \/ /\ cmds' = cmds          \* subprocess.run raised: the tool did not start
          /\ EnvLoop(FALSE, <<"Starting Docker containers...", "Error starting containers">>)
    /\ UNCHANGED <<prog, args, fs, dirs, exitCode, runs>>

\* `"Up" in result.stdout`
ServicesUp(ps_stdout) == Contains(ps_stdout, "Up")

VerifySummary ==
    <<"All services are running",
      "Docker environment setup complete!",
      "Services:",
      "   Laravel API:  http://localhost:8000",
      "   Next.js:      http://localhost:3000",
      "   Mailhog UI:   http://localhost:8025",
      "   MySQL:        localhost:3306",
      "Next steps:",
      "   1. Run: cd backend && composer install",
      "   2. Run: cd frontend && npm install",
      "   3. Run migrations: docker compose exec laravel php artisan migrate">>

VerifyWarning == "Some services may not be running properly"

\* what verify_setup prints and returns for a status listing
VerifyResult(ps_stdout) ==
    IF ServicesUp(ps_stdout)
    THEN [ok |-> TRUE, printed |-> <<"Verifying setup...">> \o VerifySummary]
    ELSE [ok |-> FALSE, printed |-> <<"Verifying setup...", VerifyWarning, ps_stdout>>]

\* the status command as logged, with result.stdout (its return code is not read)
StatusCommand(ps_stdout) == [cmd |-> "docker compose ps", ok |-> TRUE, stdout |-> ps_stdout]

verify_setup ==
    /\ prog = "env" /\ pc = "verify_setup"
    /\ \/ \E ps_stdout \in PsOutputs(args.project_name) :
            /\ cmds' = Append(cmds, StatusCommand(ps_stdout))
            /\ EnvLoop(VerifyResult(ps_stdout).ok, VerifyResult(ps_stdout).printed)
       \/ /\ cmds' = cmds          \* subprocess.run raised
          /\ EnvLoop(FALSE, <<"Verifying setup...", "Error verifying setup">>)
    /\ UNCHANGED <<prog, args, fs, dirs, exitCode, runs>>

\* a main that exits 0 whatever run returned
EnvExitCodeAlwaysZero(success) == 0

\* `sys.exit(0 if success else 1)`
EnvExitCode(success) == IF success = "True" THEN 0 ELSE 1

\* main, once run has returned
env_main_exit ==
    /\ prog = "env" /\ pc = "main_exit"
    /\ exitCode' = EnvExitCode(runResult)
    /\ pc' = "exited"
    /\ UNCHANGED <<prog, args, fs, dirs, steps, cmds, stdout, runResult, runs>>

EnvNext ==
    \/ create_docker_compose \/ create_backend_dockerfile \/ create_nginx_config
    \/ create_frontend_dockerfile \/ create_env_files \/ create_dockerignore
    \/ start_containers \/ verify_setup \/ env_main_exit

---------------------------------------------------------------------------
(* What the backend and the frontend provisioner share *)

\* the command line run_docker_command builds and prints: ' '.join(full_command)
RunDockerCommand(service, command) == "docker compose exec -T " \o service \o " " \o command

\* a method returned (ok) or was left by an exception or an exit (not ok); for a
\* check method, ok is the value it returned
Called(method, ok) == [label |-> method, ok |-> ok]

\* commands run with check=False: a nonzero return raises nothing and the block
\* goes on (the commands after the failed one are taken to succeed)
RunUnchecked(commands, k) ==
    [i \in 1..Len(commands) |-> Command(commands[i], i # k + 1)]

\* a block that invokes the command that failed a second time before it gives up
RunRetryingOnce(commands, k) ==
    [i \in 1..(IF k < Len(commands) THEN k + 2 ELSE Len(commands)) |->
        Command(commands[IF i <= k + 1 THEN i ELSE k + 1], i <= k)]

\* the commands a try block invokes when the first k of `commands` succeed: with
\* check=True the first command to return nonzero raises and ends the block
RunUntilFailure(commands, k) ==
    [i \in 1..(IF k < Len(commands) THEN k + 1 ELSE Len(commands)) |->
        Command(commands[i], i <= k)]

\* the marker file and the temporary directory after the project is created by
\* `commands`, of which the second is the copy-and-cleanup, when the first k
\* succeed.  A failed generator may leave temp_app behind; a failed
\* `cp -rT temp_app . && rm -rf temp_app` may have copied the marker file
\* (`left` says which)
ProjectFiles(p, k, left) ==
    IF k >= 2 \/ (k = 1 /\ left)
    THEN [f \in DOMAIN fs \cup {Marker(p)} |-> IF f = Marker(p) THEN MarkerContent(p) ELSE fs[f]]
    ELSE fs

ProjectDirs(p, k, left) ==
    IF k >= 2 THEN dirs \ {TempApp(p)}
    ELSE IF k = 1 \/ left THEN dirs \cup {TempApp(p)}
    ELSE dirs

\* the outcomes of the project creation: the number k of its commands that
\* succeed, and what a failed command leaves
CreationOutcomes(commands) ==
    {o \in [k : 0..Len(commands), left : BOOLEAN] : o.k >= 2 => ~o.left}

\* `sys.exit(1)` in the except clause of install_laravel and install_nextjs
InstallFailedExit == 1

\* the exit code of a script whose main returns
ReturnedExit == 0

\* the exit code of the interpreter when an exception reaches the top level
UncaughtExit == 1

\* a run that takes "already installed" to mean there is nothing left to do
AfterCheckDone(installed, install) == IF installed THEN "run_complete" ELSE install

\* run: the install method is called only when the check returns False
AfterCheck(installed, install) == IF installed THEN "install_dependencies" ELSE install

---------------------------------------------------------------------------
(* The backend provisioner: execution/setup_laravel_backend.py *)

check_laravel_installed ==
    /\ prog = "backend" /\ pc = "check_laravel_installed"
    /\ LET installed == Marker("backend") \in DOMAIN fs
       IN  /\ steps' = Append(steps, Called("check_laravel_installed", installed))
           /\ IF installed
              THEN stdout' = stdout \o <<"Setting up Laravel Backend...",
                         "Laravel already installed (composer.json found). Skipping installation.">>
              ELSE stdout' = Append(stdout, "Setting up Laravel Backend...")
           /\ pc' = AfterCheck(installed, "install_laravel")
    /\ UNCHANGED <<prog, args, fs, dirs, cmds, runResult, exitCode, runs>>

LaravelCreateCommands ==
    << RunDockerCommand("laravel",
          "composer create-project laravel/laravel:^11.0 temp_app --prefer-dist --no-interaction"),
       RunDockerCommand("laravel", "sh -c cp -rT temp_app . && rm -rf temp_app"),
       RunDockerCommand("laravel", "chown -R www-data:www-data storage bootstrap/cache"),
       RunDockerCommand("laravel", "chmod -R 775 storage bootstrap/cache") >>

install_laravel ==
    /\ prog = "backend" /\ pc = "install_laravel"
    /\ \E o \in CreationOutcomes(LaravelCreateCommands) :
         /\ cmds' = cmds \o RunUntilFailure(LaravelCreateCommands, o.k)
         /\ fs' = ProjectFiles("backend", o.k, o.left)
         /\ dirs' = ProjectDirs("backend", o.k, o.left)
         /\ IF o.k = Len(LaravelCreateCommands)
            THEN /\ steps' = Append(steps, Called("install_laravel", TRUE))
                 /\ stdout' = stdout \o <<"Installing Laravel...", "Laravel installed successfully">>
                 /\ pc' = "install_dependencies"
                 /\ UNCHANGED <<runResult, exitCode>>
            ELSE /\ steps' = Append(steps, Called("install_laravel", FALSE))
                 /\ stdout' = stdout \o <<"Installing Laravel...", "Failed to install Laravel">>
                 /\ runResult' = "exit"
                 /\ exitCode' = InstallFailedExit
                 /\ pc' = "exited"
    /\ UNCHANGED <<prog, args, runs>>

LaravelPackages ==
    <<"laravel/sanctum", "spatie/laravel-permission", "spatie/laravel-medialibrary",
      "spatie/laravel-sluggable">>

\* a loop inside one try block: the first package to fail ends it
RequireUntilFailure(packages, failed) ==
    [i \in 1..(IF failed = {} THEN Len(packages) ELSE MinOf(failed)) |->
        Command(RunDockerCommand("laravel", "composer require " \o packages[i]), i \notin failed)]

\* the loop of install_dependencies: every package in its own try block; `failed`
\* are the indexes of the packages whose command returns nonzero
RequireEach(packages, failed) ==
    [i \in 1..Len(packages) |->
        Command(RunDockerCommand("laravel", "composer require " \o packages[i]), i \notin failed)]

RECURSIVE RequireMessages(_, _, _)
RequireMessages(packages, failed, n) ==
    IF n = 0 THEN <<"Installing dependencies...">>
    ELSE RequireMessages(packages, failed, n - 1)
            \o <<"Installing " \o packages[n] \o "...">>
            \o (IF n \in failed THEN <<"Failed to install " \o packages[n]>> ELSE <<>>)

laravel_install_dependencies ==
    /\ prog = "backend" /\ pc = "install_dependencies"
    /\ \E failed \in SUBSET (1..Len(LaravelPackages)) :
         /\ cmds' = cmds \o RequireEach(LaravelPackages, failed)
         /\ stdout' = stdout \o RequireMessages(LaravelPackages, failed, Len(LaravelPackages))
    /\ steps' = Append(steps, Called("install_dependencies", TRUE))
    /\ pc' = "install_admin_panel"
    /\ UNCHANGED <<prog, args, fs, dirs, runResult, exitCode, runs>>

\* the two commands, the installer first
FilamentInstallerFirst ==
    << RunDockerCommand("laravel", "php artisan filament:install --panels --no-interaction"),
       RunDockerCommand("laravel", "composer require filament/filament:^3.2 --no-interaction") >>

\* the commands of the filament branch of install_admin_panel, in one try block
FilamentCommands ==
    << RunDockerCommand("laravel", "composer require filament/filament:^3.2 --no-interaction"),
       RunDockerCommand("laravel", "php artisan filament:install --panels --no-interaction") >>

install_admin_panel ==
    /\ prog = "backend" /\ pc = "install_admin_panel"
    /\ IF args.admin_panel = "filament"
       THEN \E k \in 0..Len(FilamentCommands) :
              /\ cmds' = cmds \o RunUntilFailure(FilamentCommands, k)
              /\ stdout' = stdout \o <<"Installing Admin Panel (" \o args.admin_panel \o ")...">>
                              \o (IF k < Len(FilamentCommands)
                                  THEN <<"Failed to install admin panel">> ELSE <<>>)
       ELSE IF args.admin_panel = "nova"
       THEN /\ cmds' = cmds
            /\ stdout' = stdout \o <<"Installing Admin Panel (" \o args.admin_panel \o ")...",
                  "Nova installation requires a license key and auth.json. Skipping exact steps.",
                  "   Please install Nova manually or provide credentials.">>
       ELSE /\ cmds' = cmds
            /\ stdout' = stdout \o <<"Installing Admin Panel (" \o args.admin_panel \o ")...">>
    /\ steps' = Append(steps, Called("install_admin_panel", TRUE))
    /\ pc' = "run_migrations"
    /\ UNCHANGED <<prog, args, fs, dirs, runResult, exitCode, runs>>

run_migrations ==
    /\ prog = "backend" /\ pc = "run_migrations"
    /\ \E ok \in BOOLEAN :
         /\ cmds' = Append(cmds, Command(RunDockerCommand("laravel", "php artisan migrate --force"), ok))
         /\ stdout' = stdout \o <<"Running migrations...", "   Waiting for database...",
                                   IF ok THEN "Migrations completed" ELSE "Failed to run migrations">>
    /\ steps' = Append(steps, Called("run_migrations", TRUE))
    /\ pc' = "run_complete"
    /\ UNCHANGED <<prog, args, fs, dirs, runResult, exitCode, runs>>

LaravelBanner == "Laravel Backend Setup Complete!"

\* the end of run, and main returning
laravel_run_complete ==
    /\ prog = "backend" /\ pc = "run_complete"
    /\ stdout' = stdout \o <<LaravelBanner, "URLs:", "   API:        http://localhost:8000",
                              "   Admin:      http://localhost:8000/admin",
                              "Default Admin Login:",
                              "   (You may need to create a user: docker compose exec laravel php artisan make:filament-user)">>
    /\ runResult' = "None"
    /\ exitCode' = ReturnedExit
    /\ pc' = "exited"
    /\ UNCHANGED <<prog, args, fs, dirs, steps, cmds, runs>>

BackendNext ==
    \/ check_laravel_installed \/ install_laravel \/ laravel_install_dependencies
    \/ install_admin_panel \/ run_migrations \/ laravel_run_complete

---------------------------------------------------------------------------
(* The frontend provisioner: execution/setup_nextjs_frontend.py *)

check_nextjs_installed ==
    /\ prog = "frontend" /\ pc = "check_nextjs_installed"
    /\ LET installed == Marker("frontend") \in DOMAIN fs
       IN  /\ steps' = Append(steps, Called("check_nextjs_installed", installed))
           /\ IF installed
              THEN stdout' = stdout \o <<"Setting up Next.js Frontend...",
                                            "Next.js already initialized. Skipping install.">>
              ELSE stdout' = Append(stdout, "Setting up Next.js Frontend...")
           /\ pc' = AfterCheck(installed, "install_nextjs")
    /\ UNCHANGED <<prog, args, fs, dirs, cmds, runResult, exitCode, runs>>

NextjsCreateCommands ==
    << RunDockerCommand("nextjs",
          "npx create-next-app@latest temp_app --typescript --tailwind --eslint --app --no-src-dir --import-alias @/* --use-npm --no-git --yes"),
       RunDockerCommand("nextjs", "sh -c cp -rT temp_app . && rm -rf temp_app") >>

install_nextjs ==
    /\ prog = "frontend" /\ pc = "install_nextjs"
    /\ \E o \in CreationOutcomes(NextjsCreateCommands) :
         /\ cmds' = cmds \o RunUntilFailure(NextjsCreateCommands, o.k)
         /\ fs' = ProjectFiles("frontend", o.k, o.left)
         /\ dirs' = ProjectDirs("frontend", o.k, o.left)
         /\ IF o.k = Len(NextjsCreateCommands)
            THEN /\ steps' = Append(steps, Called("install_nextjs", TRUE))
                 /\ stdout' = stdout \o <<"Installing Next.js...", "Next.js initialized successfully">>
                 /\ pc' = "install_dependencies"
                 /\ UNCHANGED <<runResult, exitCode>>
            ELSE /\ steps' = Append(steps, Called("install_nextjs", FALSE))
                 /\ stdout' = stdout \o <<"Installing Next.js...", "Failed to install Next.js">>
                 /\ runResult' = "exit"
                 /\ exitCode' = InstallFailedExit
                 /\ pc' = "exited"
    /\ UNCHANGED <<prog, args, runs>>

\* the two installs of install_dependencies, in the one try block that holds both
NpmInstallCommands ==
    << RunDockerCommand("nextjs",
          "npm install @tanstack/react-query axios zod react-hook-form clsx tailwind-merge"),
       RunDockerCommand("nextjs", "npm install -D @tailwindcss/typography @tailwindcss/forms") >>

nextjs_install_dependencies ==
    /\ prog = "frontend" /\ pc = "install_dependencies"
    /\ \E k \in 0..Len(NpmInstallCommands) :
         /\ cmds' = cmds \o RunUntilFailure(NpmInstallCommands, k)
         /\ stdout' = stdout \o <<"Installing additional packages...",
                                   IF k = Len(NpmInstallCommands) THEN "Dependencies installed"
                                   ELSE "Failed to install dependencies">>
    /\ steps' = Append(steps, Called("install_dependencies", TRUE))
    /\ pc' = "create_directory_structure"
    /\ UNCHANGED <<prog, args, fs, dirs, runResult, exitCode, runs>>

\* the directories of create_directory_structure, in order (mkdir makes their
\* parents with them)
FrontendDirs ==
    <<"app/(shop)/products/[slug]", "app/(shop)/cart", "app/(shop)/checkout",
      "app/(travel)/tours/[slug]", "app/(travel)/booking",
      "app/(restaurant)/menu", "app/(restaurant)/reservation",
      "app/(corporate)/services", "app/(corporate)/portfolio", "app/(corporate)/about",
      "app/(corporate)/contact", "app/api/revalidate",
      "components/shared", "components/themes/shop", "components/themes/travel",
      "components/themes/restaurant", "components/themes/corporate",
      "lib", "types", "public/images", "public/fonts", "public/icons">>

\* the method has no try block: an exception of mkdir leaves run and main and
\* ends the process; n directories are made before it
create_directory_structure ==
    /\ prog = "frontend" /\ pc = "create_directory_structure"
    /\ \E n \in 0..Len(FrontendDirs) :
         /\ dirs' = dirs \cup {"frontend/" \o FrontendDirs[i] : i \in 1..n}
         /\ stdout' = stdout \o <<"Structure creating...">>
                         \o [i \in 1..n |-> "   Created " \o FrontendDirs[i]]
         /\ IF n = Len(FrontendDirs)
            THEN /\ steps' = Append(steps, Called("create_directory_structure", TRUE))
                 /\ pc' = "create_api_client"
                 /\ UNCHANGED <<runResult, exitCode>>
            ELSE /\ steps' = Append(steps, Called("create_directory_structure", FALSE))
                 /\ runResult' = "raised"
                 /\ exitCode' = UncaughtExit
                 /\ pc' = "exited"
    /\ UNCHANGED <<prog, args, fs, cmds, runs>>

\* the method has no try block either: an exception of open or write ends the process
create_api_client ==
    /\ prog = "frontend" /\ pc = "create_api_client"
    /\ LET files == <<File("frontend/lib/api.ts", ApiClientContent, <<"Created lib/api.ts">>)>>
       IN  \E o \in WriteOutcomes(files) :
             /\ fs' = WriteFiles(files, o)
             /\ stdout' = stdout \o PrintedBy(files, o.n)
             /\ IF AllWritten(files, o)
                THEN /\ steps' = Append(steps, Called("create_api_client", TRUE))
                     /\ pc' = "run_complete"
                     /\ UNCHANGED <<runResult, exitCode>>
                ELSE /\ steps' = Append(steps, Called("create_api_client", FALSE))
                     /\ runResult' = "raised"
                     /\ exitCode' = UncaughtExit
                     /\ pc' = "exited"
    /\ UNCHANGED <<prog, args, dirs, cmds, runs>>

NextjsBanner == "Frontend setup complete!"

\* the end of run, and main returning
nextjs_run_complete ==
    /\ prog = "frontend" /\ pc = "run_complete"
    /\ stdout' = stdout \o <<NextjsBanner, "   URL: http://localhost:3000">>
    /\ runResult' = "None"
    /\ exitCode' = ReturnedExit
    /\ pc' = "exited"
    /\ UNCHANGED <<prog, args, fs, dirs, steps, cmds, runs>>

FrontendNext ==
    \/ check_nextjs_installed \/ install_nextjs \/ nextjs_install_dependencies
    \/ create_directory_structure \/ create_api_client \/ nextjs_run_complete

---------------------------------------------------------------------------
(* Runs *)

\* the script is started again with the same command line
Rerun ==
    /\ pc = "exited"
    /\ runs < MaxRuns
    /\ runs' = runs + 1
    /\ pc' = EntryPoint(prog)
    /\ steps' = <<>> /\ cmds' = <<>> /\ stdout' = <<>>
    /\ runResult' = "none" /\ exitCode' = -1
    /\ UNCHANGED <<prog, args, fs, dirs>>

Init ==
    /\ prog \in Progs
    /\ args \in ArgCases(prog)
    /\ pc = EntryPoint(prog)
    /\ fs \in (IF prog = "env" THEN {EmptyFs}
               ELSE {EmptyFs, [p \in {Marker(prog)} |-> MarkerContent(prog)]})
    /\ dirs = {}
    /\ steps = <<>> /\ cmds = <<>> /\ stdout = <<>>
    /\ runResult = "none" /\ exitCode = -1
    /\ runs = 1

Next == EnvNext \/ BackendNext \/ FrontendNext \/ Rerun

Spec == Init /\ [][Next]_vars

---------------------------------------------------------------------------
(* Properties *)

IsFailureReport(msg) ==
    /\ Len(msg) >= Len(FailureReport(""))
    /\ SubSeq(msg, 1, Len(FailureReport(""))) = FailureReport("")

Printed(msg) == \E i \in 1..Len(stdout) : stdout[i] = msg

\* C1: in the environment provisioner's run the steps are called in the order of
\* the list; when a step returns failure no step after it is called, exactly one
\* failure report is printed, it names that step's label, and run returns False.
\* While no step has failed no failure report is printed.
EnvStopsAtFirstFailure ==
    prog = "env" =>
        LET n == Len(steps)
            reports == SelectSeq(stdout, IsFailureReport)
        IN  /\ n <= Len(EnvSteps)
            /\ \A i \in 1..n : steps[i].label = EnvSteps[i].label
            /\ \A i \in 1..(n - 1) : steps[i].ok
            /\ IF n > 0 /\ ~steps[n].ok
               THEN /\ reports = <<FailureReport(EnvSteps[n].label)>>
                    /\ runResult = "False"
                    /\ pc \in {"main_exit", "exited"}
               ELSE reports = <<>>

\* a run of the environment provisioner that ended at its seventh step, the
\* first to fail
EnvFailedAtStartingContainers ==
    /\ prog = "env" /\ pc = "exited"
    /\ Len(steps) = 7 /\ ~steps[7].ok
    /\ \A i \in 1..6 : steps[i].ok

\* the steps of each pipeline that follow the project creation (all of them,
\* for the environment provisioner)
PipelineSteps(p) ==
    IF p = "env" THEN [i \in 1..Len(EnvSteps) |-> EnvSteps[i].label]
    ELSE IF p = "backend" THEN <<"install_dependencies", "install_admin_panel", "run_migrations">>
    ELSE <<"install_dependencies", "create_directory_structure", "create_api_client">>

CalledAndReturned(label) ==
    \E j \in 1..Len(steps) : steps[j].label = label /\ steps[j].ok

\* the pipeline ran to its end
Completed ==
    \A i \in 1..Len(PipelineSteps(prog)) : CalledAndReturned(PipelineSteps(prog)[i])

CreationFailed ==
    \E j \in 1..Len(steps) :
        steps[j].label \in {"install_laravel", "install_nextjs"} /\ ~steps[j].ok

\* a fatal step failed: any step of the environment provisioner, the project
\* creation of the other two
FatalStepFailed ==
    IF prog = "env" THEN \E j \in 1..Len(steps) : ~steps[j].ok ELSE CreationFailed

\* C2: the exit code of each provisioner is 0 exactly when its pipeline ran to
\* its end with no fatal step failing, and 1 whenever a fatal step failed.
ExitCodeTellsOutcome ==
    pc = "exited" =>
        /\ (exitCode = 0) <=> (Completed /\ ~FatalStepFailed)
        /\ FatalStepFailed => exitCode = 1

\* the environment provisioner exited after one of its steps failed
EnvExitedAfterFailure ==
    prog = "env" /\ pc = "exited" /\ FatalStepFailed /\ exitCode = 1

\* C3: when steps 1..7 succeed and the status listing has no "Up" in it, the
\* verification step only warns: no failure report names it, run does not
\* return False and the exit code is not 1.
VerifyWarningIsSoft ==
    (/\ prog = "env"
     /\ Len(steps) = Len(EnvSteps)
     /\ \A i \in 1..(Len(EnvSteps) - 1) : steps[i].ok
     /\ Printed(VerifyWarning))
        => /\ ~Printed(FailureReport("Verifying setup"))
           /\ runResult # "False"
           /\ exitCode # 1

\* the commands of the project creation, and the methods that run them
CreationCommands(p) == IF p = "backend" THEN LaravelCreateCommands ELSE NextjsCreateCommands

IsCreationCommand(c) ==
    \E i \in 1..Len(CreationCommands(prog)) : c.cmd = CreationCommands(prog)[i]

InstallMethods == {"install_laravel", "install_nextjs"}

Banner(p) == IF p = "backend" THEN LaravelBanner ELSE NextjsBanner

\* the run is past the project creation: it was skipped, or it succeeded
CreationSkipped == Len(steps) >= 1 /\ steps[1].ok
CreationSucceeded ==
    Len(steps) >= 2 /\ steps[2].label \in InstallMethods /\ steps[2].ok

\* the steps called after the project creation was skipped or had succeeded
StepsAfterCreation ==
    IF CreationSkipped THEN SubSeq(steps, 2, Len(steps))
    ELSE IF CreationSucceeded THEN SubSeq(steps, 3, Len(steps))
    ELSE <<>>

\* C4: in the backend and the frontend provisioner a run that got past the
\* project creation ends with every step after it called, the completion banner
\* printed and exit code 0, whichever of these steps failed.
StepsAfterCreationAreBestEffort ==
    (/\ prog \in {"backend", "frontend"}
     /\ pc = "exited"
     /\ (CreationSkipped \/ CreationSucceeded))
        => /\ [i \in 1..Len(StepsAfterCreation) |-> StepsAfterCreation[i].label]
                = PipelineSteps(prog)
           /\ Printed(Banner(prog))
           /\ exitCode = 0

\* how far the run is in the steps that follow the project creation: they are
\* called in the pipeline's order, each after the one before it returned, and pc
\* is at the next of them, or the run has ended once all returned or one raised
AfterCreationInOrder ==
    LET after == StepsAfterCreation
        n     == Len(after)
    IN  /\ n <= Len(PipelineSteps(prog))
        /\ \A i \in 1..n : after[i].label = PipelineSteps(prog)[i]
        /\ \A i \in 1..(n - 1) : after[i].ok
        /\ IF n > 0 /\ ~after[n].ok THEN pc = "exited"
           ELSE IF n = Len(PipelineSteps(prog)) THEN pc \in {"run_complete", "exited"}
           ELSE pc = PipelineSteps(prog)[n + 1]

CreationFailureIsFatal ==
    prog \in {"backend", "frontend"} =>
        \A i \in 1..Len(cmds) :
            (IsCreationCommand(cmds[i]) /\ ~cmds[i].ok)
                => /\ i = Len(cmds)
                   /\ ~steps[1].ok
                   /\ Len(steps) = 2 /\ steps[2].label \in InstallMethods /\ ~steps[2].ok
                   /\ pc = "exited" /\ exitCode = 1

\* a backend run whose copy-and-cleanup command failed
BackendMoveFailed ==
    /\ prog = "backend" /\ Len(cmds) = 2
    /\ cmds[2].cmd = LaravelCreateCommands[2] /\ ~cmds[2].ok

IsRequire(c) ==
    \E i \in 1..Len(LaravelPackages) :
        c.cmd = RunDockerCommand("laravel", "composer require " \o LaravelPackages[i])

\* C7: once the backend's dependency step has been called, each of the four
\* packages was attempted exactly once, in the order of the list, whichever of
\* them failed, and the run went on to the admin-panel step.
EveryPackageAttempted ==
    (prog = "backend" /\ \E j \in 1..Len(steps) : steps[j].label = "install_dependencies")
        => /\ LET attempts == SelectSeq(cmds, IsRequire)
              IN  /\ Len(attempts) = Len(LaravelPackages)
                  /\ \A i \in 1..Len(LaravelPackages) :
                        attempts[i].cmd = RunDockerCommand("laravel",
                                              "composer require " \o LaravelPackages[i])
           /\ CalledAndReturned("install_dependencies")
           /\ (pc = "install_admin_panel"
                 \/ \E j \in 1..Len(steps) : steps[j].label = "install_admin_panel")

\* the first package failed and the last one was attempted and installed
FirstPackageFailed ==
    /\ prog = "backend"
    /\ LET attempts == SelectSeq(cmds, IsRequire)
       IN  Len(attempts) = 4 /\ ~attempts[1].ok /\ attempts[4].ok
    /\ pc = "install_admin_panel"

\* C8: in every frontend run that got past the project creation, the dependency
\* step invokes the runtime install and then the development-only install,
\* whether or not the runtime install succeeded.
BothInstallsInvoked ==
    (prog = "frontend" /\ \E j \in 1..Len(steps) : steps[j].label = "install_dependencies")
        => \E i \in 1..Len(cmds) :
              /\ cmds[i].cmd = NpmInstallCommands[1]
              /\ i < Len(cmds)
              /\ cmds[i + 1].cmd = NpmInstallCommands[2]

---------------------------------------------------------------------------
(* Reading the generated texts back, line by line *)

Breaks(s) == {i \in 1..Len(s) : SubSeq(s, i, i) = "\n"}

\* the numbers of S, all in lo..hi, in ascending order
RECURSIVE AscendingIn(_, _, _)
AscendingIn(S, lo, hi) ==
    IF S = {} THEN <<>>
    ELSE IF lo = hi THEN <<lo>>
    ELSE LET mid == (lo + hi) \div 2
         IN  AscendingIn({x \in S : x <= mid}, lo, mid)
                \o AscendingIn({x \in S : x > mid}, mid + 1, hi)

\* the lines of a text, without their line breaks
Lines(s) ==
    LET b == AscendingIn(Breaks(s), 1, Len(s))
    IN  [k \in 1..(Len(b) + 1) |->
            SubSeq(s, IF k = 1 THEN 1 ELSE b[k - 1] + 1,
                      IF k <= Len(b) THEN b[k] - 1 ELSE Len(s))]

StartsWith(l, prefix) == Len(l) >= Len(prefix) /\ SubSeq(l, 1, Len(prefix)) = prefix

\* the values of a field: what follows `key` on each line that starts with it
Field(text, key) ==
    LET ls == SelectSeq(Lines(text), LAMBDA l : StartsWith(l, key))
    IN  [i \in 1..Len(ls) |-> SubSeq(ls[i], Len(key) + 1, Len(ls[i]))]

\* the keys of the manifest's `services:` mapping: the lines indented by two
\* spaces that end with a colon, from the `services:` line to the next line
\* that is not indented
ServiceKeys(text) ==
    LET ls     == Lines(text)
        starts == {i \in 1..Len(ls) : ls[i] = "services:"}
        first  == MinOf(starts)
        tops   == {j \in (first + 1)..Len(ls) : Len(ls[j]) > 0 /\ SubSeq(ls[j], 1, 1) # " "}
        last   == IF tops = {} THEN Len(ls) ELSE MinOf(tops) - 1
        IsKey(l) == /\ Len(l) >= 4
                    /\ SubSeq(l, 1, 2) = "  "
                    /\ SubSeq(l, 3, 3) \notin {" ", "#"}
                    /\ SubSeq(l, Len(l), Len(l)) = ":"
        keys   == SelectSeq(SubSeq(ls, first + 1, last), IsKey)
    IN  IF starts = {} THEN <<>>
        ELSE [i \in 1..Len(keys) |-> SubSeq(keys[i], 3, Len(keys[i]) - 1)]

\* the step at position i of the environment provisioner has just returned True
JustReturned(i) == prog = "env" /\ Len(steps) = i /\ steps[i].ok

\* C9: backend/.env.example is backend/.env with only the value of DB_PASSWORD
\* replaced: its DB_PASSWORD line reads DB_PASSWORD=your_password_here and every
\* other line is the line of backend/.env.
ExampleRedactsOnlyPassword ==
    JustReturned(5) =>
        LET env     == Lines(fs["backend/.env"])
            example == Lines(fs["backend/.env.example"])
        IN  /\ Len(example) = Len(env)
            /\ \A i \in 1..Len(env) :
                  IF StartsWith(env[i], "DB_PASSWORD=")
                  THEN example[i] = "DB_PASSWORD=" \o PasswordPlaceholder
                  ELSE example[i] = env[i]

\* the manifest has the five services, their container names made of the
\* project name, and the password and the database name at their fields
ManifestHasValues ==
    LET manifest == fs["docker-compose.yml"]
    IN  /\ ServiceKeys(manifest) = Services
        /\ Field(manifest, "    container_name: ")
              = [i \in 1..Len(Services) |-> args.project_name \o "_" \o Services[i]]
        /\ Field(manifest, "      MYSQL_ROOT_PASSWORD: ") = <<args.mysql_password>>
        /\ Field(manifest, "      MYSQL_DATABASE: ") = <<args.mysql_database>>

\* backend/.env has the database name and the password at their fields
EnvHasValues ==
    /\ Field(fs["backend/.env"], "DB_DATABASE=") = <<args.mysql_database>>
    /\ Field(fs["backend/.env"], "DB_PASSWORD=") = <<args.mysql_password>>

\* C10, as claimed: for every project name, database name and password the
\* manifest and backend/.env hold the supplied values at their fields.
ValuesVerbatim ==
    /\ JustReturned(1) => ManifestHasValues
    /\ JustReturned(5) => EnvHasValues

NoLineBreak(s) == ~Contains(s, "\n")

\* C10, amended: the same, for a project name, a database name and a password
\* that hold no line break.
ValuesVerbatimOnOneLine ==
    (NoLineBreak(args.project_name) /\ NoLineBreak(args.mysql_password)
        /\ NoLineBreak(args.mysql_database))
            => ValuesVerbatim

\* the scenario of the example: cms-system, secret, cms_db, with the manifest
\* and the environment files written
ExampleScenarioWritten ==
    /\ JustReturned(5)
    /\ args = DockerEnvironmentSetup("cms-system", "secret", "cms_db")
    /\ ManifestHasValues /\ EnvHasValues

\* the files each file-generating step is responsible for, by the step's name
\* in the log, each with the texts the step can intend for it
Generated(label) ==
    IF label = "Creating docker-compose.yml"
    THEN {[path |-> "docker-compose.yml", texts |-> {docker_compose_content(args)}]}
    ELSE IF label = "Creating backend Dockerfile"
    THEN {[path |-> "backend/Dockerfile", texts |-> {BackendDockerfileContent}]}
    ELSE IF label = "Creating nginx config"
    THEN {[path |-> "backend/docker/nginx.conf", texts |-> {NginxConfigContent}]}
    ELSE IF label = "Creating frontend Dockerfile"
    THEN {[path |-> "frontend/Dockerfile", texts |-> {FrontendDockerfileContent}]}
    ELSE IF label = "Creating environment files"
    THEN LET envs == {BackendEnv(k, args.mysql_database, args.mysql_password) : k \in AppKeys}
         IN  {[path |-> "backend/.env", texts |-> envs],
              [path |-> "frontend/.env.local", texts |-> {FrontendEnv}],
              [path |-> "backend/.env.example",
               texts |-> {BackendEnvExample(e, args.mysql_password) : e \in envs}],
              [path |-> "frontend/.env.example", texts |-> {FrontendEnv}]}
    ELSE IF label = "Creating .dockerignore files"
    THEN {[path |-> "backend/.dockerignore", texts |-> {BackendIgnore}],
          [path |-> "frontend/.dockerignore", texts |-> {FrontendIgnore}]}
    ELSE IF label = "create_api_client"
    THEN {[path |-> "frontend/lib/api.ts", texts |-> {ApiClientContent}]}
    ELSE {}

\* every file of the step is on disk with a full intended text
FullyWritten(label) ==
    \A g \in Generated(label) : g.path \in DOMAIN fs /\ fs[g.path] \in g.texts

\* the pipeline was told of the failure of its last step: the environment
\* provisioner's run printed its failure report and returned False; the
\* frontend's run was left by the exception, which ends the process
FailureReported ==
    IF prog = "env"
    THEN /\ Printed(FailureReport(steps[Len(steps)].label))
         /\ runResult = "False" /\ pc \in {"main_exit", "exited"}
    ELSE runResult = "raised" /\ pc = "exited" /\ exitCode = UncaughtExit
            /\ ~Printed(NextjsBanner)

\* C11: a file-generating step that has just returned success has every one of
\* its files on disk with its full intended content; a step of which a write
\* failed has not returned success, and the pipeline was told so.
WritesAllOrNothing ==
    LET n == Len(steps)
    IN  (n > 0 /\ Generated(steps[n].label) # {}) =>
            IF steps[n].ok THEN FullyWritten(steps[n].label) ELSE FailureReported

\* the step of the four environment files failed with the first file written and
\* the second cut short
EnvFilesPartlyWritten ==
    /\ prog = "env" /\ Len(steps) = 5 /\ ~steps[5].ok
    /\ "backend/.env" \in DOMAIN fs /\ "frontend/.env.local" \in DOMAIN fs
    /\ fs["frontend/.env.local"] # FrontendEnv
    /\ "backend/.env.example" \notin DOMAIN fs

\* the directory subtree each provisioner owns: the backend provisioner the
\* directory its container works in, the frontend provisioner likewise, and the
\* environment provisioner the rest of the project root
InOwnSubtree(p, f) ==
    IF p = "backend" THEN StartsWith(f, "backend/")
    ELSE IF p = "frontend" THEN StartsWith(f, "frontend/")
    ELSE ~StartsWith(f, "backend/") /\ ~StartsWith(f, "frontend/")

\* C12: the paths the three provisioners create or overwrite are pairwise
\* disjoint, each provisioner writing only inside its own directory subtree:
\* every file a step creates or changes lies in the subtree of the provisioner
\* that runs the step.
WritesOnlyOwnSubtree ==
    [][\A f \in DOMAIN fs' :
          (f \notin DOMAIN fs \/ fs'[f] # fs[f]) => InOwnSubtree(prog, f)]_vars

\* C13: within a run nothing is retried: no step is called twice and no
\* external command is invoked twice, whether it succeeded or failed.
NothingRetried ==
    /\ \A i, j \in 1..Len(steps) : steps[i].label = steps[j].label => i = j
    /\ \A i, j \in 1..Len(cmds) : cmds[i].cmd = cmds[j].cmd => i = j

\* a run of the backend provisioner that ended after commands of three of its
\* steps had failed
FailedCommandsNotRepeated ==
    /\ prog = "backend" /\ pc = "exited" /\ exitCode = ReturnedExit
    /\ \E i \in 1..Len(cmds) : IsRequire(cmds[i]) /\ ~cmds[i].ok
    /\ ~cmds[Len(cmds)].ok
    /\ \E i \in 1..Len(cmds) : cmds[i].cmd = FilamentCommands[1] /\ ~cmds[i].ok

IsPanelRequire(c) == Contains(c.cmd, "composer require filament/filament")
IsPanelInstaller(c) == Contains(c.cmd, "php artisan filament:install")
IsMigrate(c) == Contains(c.cmd, "php artisan migrate")

\* the commands of the log that none of the other steps of the backend
\* provisioner invokes
PanelCommands ==
    SelectSeq(cmds, LAMBDA c : ~(IsCreationCommand(c) \/ IsRequire(c) \/ IsMigrate(c)))

\* C14: once the admin-panel step has been called: with filament the require
\* command is the first command of the step, and the installer is invoked only
\* after it, and only if it succeeded; with nova the step invokes no command.
\* With both the step returns, the run is not ended by it, and the migration
\* step is the next to be called.
PanelStepInOrder ==
    (prog = "backend" /\ \E i \in 1..Len(steps) : steps[i].label = "install_admin_panel") =>
        LET i == CHOOSE j \in 1..Len(steps) : steps[j].label = "install_admin_panel"
        IN  /\ steps[i].ok
            /\ IF args.admin_panel = "filament"
               THEN /\ Len(PanelCommands) \in 1..2
                    /\ IsPanelRequire(PanelCommands[1])
                    /\ Len(PanelCommands) = 2 =>
                          IsPanelInstaller(PanelCommands[2]) /\ PanelCommands[1].ok
               ELSE PanelCommands = <<>>
            /\ IF i = Len(steps)
               THEN pc = "run_migrations" /\ exitCode = -1 /\ runResult = "none"
               ELSE steps[i + 1].label = "run_migrations"

\* filament: the require command succeeded, the installer failed, and the
\* migration step was called after that
PanelInstallerFailed ==
    /\ prog = "backend" /\ args.admin_panel = "filament"
    /\ Len(PanelCommands) = 2 /\ ~PanelCommands[2].ok
    /\ CalledAndReturned("run_migrations")

\* the listing has the line of the service with the status Up
ReportedUp(listing, service) ==
    Contains(listing, args.project_name \o "_" \o service \o "   Up")

\* C15: the verification step prints 'All services are running' only if the
\* status command reported every one of the five services as up.
AllRunningMeansAllUp ==
    (prog = "env" /\ Printed(VerifySummary[1])) =>
        \A i \in 1..Len(Services) : ReportedUp(cmds[Len(cmds)].stdout, Services[i])

\* C16: when a run of the backend or of the frontend provisioner has ended in
\* its project creation, the marker file is absent, so that the next run
\* creates the project again.
MarkerAbsentAfterFailedCreation ==
    (prog \in {"backend", "frontend"} /\ pc = "exited" /\ CreationFailed)
        => Marker(prog) \notin DOMAIN fs
====
